---------------------------- MODULE Spec2Model ----------------------------
(***************************************************************************)
(* GF(2^233) arithmetic in an optimal normal basis: the class GF2mElement  *)
(* of src/main.cpp.  A coefficient vector (std::vector<bool>) is a function *)
(* from 0..n-1 to BOOLEAN; a std::string is a TLA+ string.                  *)
(***************************************************************************)
EXTENDS Integers, Sequences, FiniteSets, TLC

m == 233
p == 467

\* Bounds of the input sets the operations are exercised on.
NumUnits == 6
MaxExpLen == 2
MaxStrLen == 4
MaxMuls == 2

Idx == 0..(m - 1)

\* TLC evaluates operator arguments and function constructors lazily, and
\* evaluates a lazy function again at every application.  Comparing a value
\* with itself makes TLC compute it once, there and then; Eval(v) is TRUE
\* and Vec(f) is f.
Eval(v) == v = v
Vec(f) == CASE Eval(f) -> f

\* bool ^ bool
XOR(x, y) == x # y

\* bitString[i], i counted from 0
CharAt(s, i) == SubSeq(s, i + 1, i + 1)

\* '%' as the mathematical remainder, never negative
FlooredMod(x, y) == x % y

\* C++ '%' on int truncates toward zero: the result takes the dividend's sign.
TruncMod(x, y) == IF x >= 0 THEN x % y ELSE -((-x) % y)

\* XOR-accumulation of the coefficients selected by S, starting from false.
Parity(S) == Cardinality(S) % 2 = 1

----------------------------------------------------------------------------
\* Construction and the O(m) operations

\* coefficients.resize(m, false)
Resize(coeffs) ==
  IF DOMAIN coeffs = Idx THEN coeffs
  ELSE Vec([i \in Idx |-> IF i \in DOMAIN coeffs THEN coeffs[i] ELSE FALSE])

\* GF2mElement(const std::vector<bool>&)
GF2mElement(coeffs) == Resize(coeffs)

\* GF2mElement(const std::string&): the characters are pushed from the last
\* to the first, each as (character == '1'), then the vector is resized to m.
FromString(bitString) ==
  LET len == Len(bitString)
      pushed == Vec([n \in 0..(len - 1) |-> CharAt(bitString, len - 1 - n) = "1"])
  IN  Resize(pushed)

\* operator+
Plus(x, y) == GF2mElement(Vec([i \in Idx |-> XOR(x[i], y[i])]))

\* squareONB: squared[m-1] = c[0], squared[i] = c[i+1] for i < m-1
squareONB(c) ==
  GF2mElement(Vec([i \in Idx |-> IF i = m - 1 THEN c[0] ELSE c[i + 1]]))

\* trace: XOR of all the coefficients
trace(c) == Parity({i \in DOMAIN c : c[i]})

\* The rotation in the other direction: slot n holds c[(n + positions) mod size]
cyclicRightShift(c, positions) ==
  LET size == Cardinality(DOMAIN c)
  IN  GF2mElement(Vec([n \in 0..(size - 1) |-> c[(n + positions) % size]]))

\* cyclicLeftShift: shifted[(i + positions) % size] = c[i] for every i, so
\* slot n holds c[(n - positions) mod size].
cyclicLeftShift(c, positions) ==
  LET size == Cardinality(DOMAIN c)
  IN  GF2mElement(Vec([n \in 0..(size - 1) |-> c[(n - positions) % size]]))

\* transposeToVector: the coefficients in reverse index order
transposeToVector(c) == Vec([i \in Idx |-> c[m - 1 - i]])

\* multiplyWithTransposed: XOR of c[i] over the i with other[i]
multiplyWithTransposed(c, other) == Parity({i \in Idx : other[i] /\ c[i]})

\* operator<<: index m-1 first
RECURSIVE Digits(_, _, _)
Digits(c, hi, lo) ==
  IF hi = lo THEN (IF c[hi] THEN "1" ELSE "0")
  ELSE LET mid == (hi + lo + 1) \div 2
       IN  Digits(c, hi, mid) \o Digits(c, mid - 1, lo)
Serialize(c) == Digits(c, m - 1, 0)

Zero == Vec([i \in Idx |-> FALSE])
One == Vec([i \in Idx |-> TRUE])
Unit(n) == Vec([i \in Idx |-> i = n])

\* The operands of main()
MainA == "10111100000011111110110111100101101100100111011101101000001011110001001110001110110001011101100110100001001110101101011011100100000110011010111110010000001010100101111101010100000010011001001001110100110011101111100101011110010111010"
MainB == "10010100100111000111100100011001111101000111000010110011001110000101100000111110101110000100000001101110110001110001100101000111011010110111001101110111001000000101100101110011000001011010010101110111100111001010001000001111010001010"

----------------------------------------------------------------------------
\* The multiplication matrix

\* The loop of mod_pow_2: n times result = (result * 2) % mod.
RECURSIVE Doubled(_, _, _)
Doubled(result, n, mod) ==
  IF n = 0 THEN result
  ELSE IF n = 1 THEN (result * 2) % mod
  ELSE LET half == Doubled(result, n \div 2, mod)
       IN  CASE Eval(half) -> Doubled(half, n - (n \div 2), mod)

\* mod_pow_2: the cached value when the exponent is cached, else the loop's.
mod_pow_2(cache, exponent, mod) ==
  IF exponent \in DOMAIN cache THEN cache[exponent] ELSE Doubled(1, exponent, mod)

\* mod_pow_2_cache after mod_pow_2 has been called for every exponent of E
Cached(cache, E) ==
  Vec([e \in (DOMAIN cache) \cup E |-> mod_pow_2(cache, e, p)])

\* The combinations without -pow_i - pow_j: the first one stands in its place
SumAndDifferences(cache, i, j) ==
  LET mod == p
      pow_i == mod_pow_2(cache, i, mod)
      pow_j == mod_pow_2(cache, j, mod)
  IN  << TruncMod(pow_i + pow_j, mod),
         TruncMod(pow_i - pow_j + mod, mod),
         TruncMod(-pow_i + pow_j + mod, mod),
         TruncMod(pow_i + pow_j, mod) >>

\* The four combinations of compute_matrix_element, as the program computes them
Combinations(cache, i, j) ==
  LET mod == p
      pow_i == mod_pow_2(cache, i, mod)
      pow_j == mod_pow_2(cache, j, mod)
  IN  << TruncMod(pow_i + pow_j, mod),
         TruncMod(pow_i - pow_j + mod, mod),
         TruncMod(-pow_i + pow_j + mod, mod),
         TruncMod(-pow_i - pow_j + mod, mod) >>

HitsOne(res) == \E n \in 1..4 : res[n] = 1 \/ res[n] = -466

compute_matrix_element(cache, i, j) ==
  IF HitsOne(Combinations(cache, i, j)) THEN 1 ELSE 0

\* One row of createMultiplicativeMatrix: j runs upward from 0, a column is
\* emitted when compute_matrix_element(i, j) = 1, and the second emission
\* ends the row: the row emits its first two matching columns in order.
Least(S) == CHOOSE x \in S : \A y \in S : x <= y
ScanRow(cache, i) ==
  LET hit == {j \in Idx : compute_matrix_element(cache, i, j) = 1}
  IN  IF hit = {} THEN << >>
      ELSE IF Cardinality(hit) = 1 THEN << Least(hit) >>
      ELSE << Least(hit), Least(hit \ {Least(hit)}) >>

\* createMultiplicativeMatrix: one_positions, held by row: the pairs (i, j)
\* of row i are one_positions[i][1], one_positions[i][2] in emission order.
createMultiplicativeMatrix(cache) ==
  LET full == Cached(cache, Idx)
  IN  Vec([i \in Idx |-> ScanRow(full, i)])


----------------------------------------------------------------------------
\* Multiplication

\* multiplyWithMatrix reading c[j] in place of c[m - 1 - j]
multiplyWithMatrixUnreflected(c, one_positions) ==
  Vec([i \in Idx |->
        Parity({n \in 1..Len(one_positions[i]) : c[one_positions[i][n]]})])

\* multiplyWithMatrix: result[i] ^= c[m - 1 - j] for every pair (i, j)
multiplyWithMatrix(c, one_positions) ==
  Vec([i \in Idx |->
        Parity({n \in 1..Len(one_positions[i]) : c[m - 1 - one_positions[i][n]]})])

\* One round of multiplyAndShift's loop: the output character
RoundBit(x, y, matrixA) ==
  LET productWithA == multiplyWithMatrix(x, matrixA)
      transposedB == transposeToVector(y)
      multiplicationResult ==
        multiplyWithTransposed(GF2mElement(productWithA), transposedB)
  IN  IF multiplicationResult THEN "1" ELSE "0"

\* `steps` rounds of the loop from operands x and y: the characters pushed onto
\* resultVector and the operands as the rounds leave them.  The rounds run in
\* order; the recursion halves their number to stay shallow.
RECURSIVE Rounds(_, _, _, _)
Rounds(x, y, matrixA, steps) ==
  IF steps = 0 THEN [resultVector |-> "", a |-> x, b |-> y]
  ELSE IF steps = 1
  THEN [resultVector |-> RoundBit(x, y, matrixA),
        a |-> cyclicLeftShift(x, 1),
        b |-> cyclicLeftShift(y, 1)]
  ELSE LET first == Rounds(x, y, matrixA, steps \div 2)
       IN  CASE Eval(first) ->
             LET rest == Rounds(first.a, first.b, matrixA, steps - (steps \div 2))
             IN  [resultVector |-> first.resultVector \o rest.resultVector,
                  a |-> rest.a, b |-> rest.b]

\* multiplyAndShift: builds the matrix, then runs the rounds.  first is the
\* pair of operands as the first round leaves them; built counts the runs of
\* createMultiplicativeMatrix the call makes.
multiplyAndShift(cache, x, y, steps) ==
  LET matrixA == createMultiplicativeMatrix(cache)
  IN  CASE Eval(matrixA) ->
        [resultVector |-> Rounds(x, y, matrixA, steps).resultVector,
         first |-> [a |-> Rounds(x, y, matrixA, 1).a,
                    b |-> Rounds(x, y, matrixA, 1).b],
         built |-> 1]

\* The characters read from the first to the last
FromRoundsForward(resultVector) ==
  LET len == Len(resultVector)
  IN  GF2mElement(Vec([n \in 0..(len - 1) |-> CharAt(resultVector, n) = "1"]))

\* operator*: the characters of multiplyAndShift's string read from the last
\* to the first become coefficients 0, 1, ...
FromRounds(resultVector) ==
  LET len == Len(resultVector)
  IN  GF2mElement(Vec([n \in 0..(len - 1) |-> CharAt(resultVector, len - 1 - n) = "1"]))

Times(cache, x, y) == FromRounds(multiplyAndShift(cache, x, y, 233).resultVector)

----------------------------------------------------------------------------
\* Exponentiation and inversion

\* The loop of power without result.squareONB()
RECURSIVE PowerLoopUnsquared(_, _, _, _, _)
PowerLoopUnsquared(cache, acc, base, exponent, i) ==
  IF i >= Len(exponent) THEN acc
  ELSE LET next == IF CharAt(exponent, i) = "1" THEN Times(cache, acc, base)
                   ELSE acc
       IN  CASE Eval(next) -> PowerLoopUnsquared(cache, next, base, exponent, i + 1)

\* The loop of power from index i on
RECURSIVE PowerLoop(_, _, _, _, _)
PowerLoop(cache, acc, base, exponent, i) ==
  IF i >= Len(exponent) THEN acc
  ELSE LET squared == squareONB(acc)
           next == IF CharAt(exponent, i) = "1" THEN Times(cache, squared, base)
                   ELSE squared
       IN  CASE Eval(next) -> PowerLoop(cache, next, base, exponent, i + 1)

power(cache, base, exponent) ==
  LET neutral == GF2mElement(Vec([i \in Idx |-> TRUE]))
      start == IF exponent # "" /\ CharAt(exponent, 0) = "1"
               THEN Times(cache, neutral, base) ELSE neutral
  IN  CASE Eval(start) -> PowerLoop(cache, start, base, exponent, 1)

\* operator* calls power makes: one per '1' of the exponent
PowerProducts(exponent) ==
  Cardinality({i \in 0..(Len(exponent) - 1) : CharAt(exponent, i) = "1"})

\* The binary digits of 233 in place of those of 232
m_binary_of_m == "11101001"

\* m_binary of inverse
m_binary == "11101000"

\* The inner loop of inverse: j = 0..k-1, beta = beta.squareONB()
RECURSIVE SquaredTimes(_, _)
SquaredTimes(c, count) ==
  IF count = 0 THEN c
  ELSE IF count = 1 THEN squareONB(c)
  ELSE LET half == SquaredTimes(c, count \div 2)
       IN  CASE Eval(half) -> SquaredTimes(half, count - (count \div 2))

\* One pass of inverse's outer loop at index idx, from beta and k, on the element
\* self: the locals after the pass and the operator* calls it made.
InversePass(cache, self, beta0, k0, idx) ==
  LET original_beta == beta0
      raised == SquaredTimes(beta0, k0)
      combined == Times(cache, raised, original_beta)
      taken == CharAt(m_binary, idx) = "1"
  IN  CASE Eval(combined) ->
        IF taken
        THEN [beta |-> Times(cache, squareONB(combined), self), k |-> k0 * 2 + 1, products |-> 2]
        ELSE [beta |-> combined, k |-> k0 * 2, products |-> 1]

----------------------------------------------------------------------------
\* State

VARIABLES
  pc,               \* where the caller stands: the call that returned last
  mod_pow_2_cache,  \* the static cache of mod_pow_2: exponent -> 2^exponent mod p
  builds,           \* runs of createMultiplicativeMatrix so far
  a, b,             \* the operands
  result,           \* what the last call returned
  resultVector,     \* the string the last multiplyAndShift returned
  rotated,          \* multiplyAndShift's a and b after the first round of the last call
  beta, k, i,       \* the locals of inverse
  exponent,         \* the string given to power
  n, prod,          \* a multiplied n times: prod = a * a * ... * a (n copies)
  bitString,        \* the string given to the constructor
  row, col,         \* the arguments of compute_matrix_element
  results,          \* its four combinations
  element,          \* its return value
  one_positions     \* what createMultiplicativeMatrix returned

vars == << pc, mod_pow_2_cache, builds, a, b, result, resultVector, rotated,
           beta, k, i, exponent, n, prod, bitString, row, col, results,
           element, one_positions >>

mulVars == << resultVector, rotated >>
invVars == << beta, k, i >>
powVars == << exponent, n, prod >>
matVars == << row, col, results, element, one_positions >>

\* No call made yet
Fresh ==
  /\ mod_pow_2_cache = << >>
  /\ builds = 0
  /\ result = << >>
  /\ resultVector = ""
  /\ rotated = << >>
  /\ beta = << >> /\ k = 0 /\ i = 0
  /\ exponent = "" /\ n = 0
  /\ bitString = ""
  /\ row = 0 /\ col = 0 /\ results = << >> /\ element = 0
  /\ one_positions = << >>

\* Elements the operations are run on
Units == {Unit(u) : u \in 0..(NumUnits - 1)}
Samples == {Zero, One, FromString(MainA), FromString(MainB)} \cup Units

----------------------------------------------------------------------------
\* The matrix: createMultiplicativeMatrix, then compute_matrix_element on
\* every pair of indices

InitMatrix ==
  /\ pc = "start"
  /\ a = << >> /\ b = << >>
  /\ prod = << >>
  /\ Fresh

CreateMatrix ==
  /\ pc = "start"
  /\ one_positions' = createMultiplicativeMatrix(mod_pow_2_cache)
  /\ mod_pow_2_cache' = Cached(mod_pow_2_cache, Idx)
  /\ builds' = builds + 1
  /\ pc' = "matrix"
  /\ UNCHANGED << a, b, result, mulVars, invVars, powVars, bitString, row, col, results, element >>

ComputeElement ==
  /\ pc = "matrix"
  /\ \E r \in Idx, c \in Idx :
       /\ row' = r
       /\ col' = c
       /\ results' = Combinations(mod_pow_2_cache, r, c)
       /\ element' = compute_matrix_element(mod_pow_2_cache, r, c)
       /\ mod_pow_2_cache' = Cached(mod_pow_2_cache, {r, c})
  /\ pc' = "element"
  /\ UNCHANGED << builds, a, b, result, mulVars, invVars, powVars, bitString, one_positions >>

NextMatrix == CreateMatrix \/ ComputeElement

SpecMatrix == InitMatrix /\ [][NextMatrix]_vars

----------------------------------------------------------------------------
\* Products: a * b, the result taken as the next left operand, and the O(m)
\* operations of main()

InitMul ==
  /\ pc = "ready"
  /\ a \in Samples
  /\ b \in {One, FromString(MainB)}
  /\ prod = << >>
  /\ Fresh

Multiply ==
  /\ pc = "ready"
  /\ builds < MaxMuls
  /\ \E call \in {multiplyAndShift(mod_pow_2_cache, a, b, 233)} :
         /\ resultVector' = call.resultVector
         /\ rotated' = call.first
         /\ result' = FromRounds(call.resultVector)
         /\ builds' = builds + call.built
  /\ mod_pow_2_cache' = Cached(mod_pow_2_cache, Idx)
  /\ pc' = "multiplied"
  /\ UNCHANGED << a, b, invVars, powVars, bitString, matVars >>

TakeProduct ==
  /\ pc = "multiplied"
  /\ a' = result
  /\ pc' = "ready"
  /\ UNCHANGED << mod_pow_2_cache, builds, b, result, mulVars, invVars, powVars, bitString, matVars >>

Add ==
  /\ pc = "ready"
  /\ result' = Plus(a, b)
  /\ pc' = "added"
  /\ UNCHANGED << mod_pow_2_cache, builds, a, b, mulVars, invVars, powVars, bitString, matVars >>

Square ==
  /\ pc = "ready"
  /\ result' = squareONB(a)
  /\ pc' = "squared"
  /\ UNCHANGED << mod_pow_2_cache, builds, a, b, mulVars, invVars, powVars, bitString, matVars >>

Trace ==
  /\ pc = "ready"
  /\ result' = << trace(a) >>
  /\ pc' = "traced"
  /\ UNCHANGED << mod_pow_2_cache, builds, a, b, mulVars, invVars, powVars, bitString, matVars >>

NextMul == Multiply \/ TakeProduct \/ Add \/ Square \/ Trace

SpecMul == InitMul /\ [][NextMul]_vars

----------------------------------------------------------------------------
\* a.inverse(), one pass of its loop at a time, then a * a.inverse()

InitInv ==
  /\ pc = "ready"
  /\ a \in Samples
  /\ b = << >>
  /\ prod = << >>
  /\ Fresh

InverseBegin ==
  /\ pc = "ready"
  /\ beta' = a
  /\ k' = 1
  /\ i' = 1
  /\ pc' = "inverse"
  /\ UNCHANGED << mod_pow_2_cache, builds, a, b, result, mulVars, powVars, bitString, matVars >>

InverseLoop ==
  /\ pc = "inverse"
  /\ i <= 7
  /\ \E pass \in {InversePass(mod_pow_2_cache, a, beta, k, i)} :
         /\ beta' = pass.beta
         /\ k' = pass.k
         /\ builds' = builds + pass.products
  /\ i' = i + 1
  /\ mod_pow_2_cache' = Cached(mod_pow_2_cache, Idx)
  /\ UNCHANGED << pc, a, b, result, mulVars, powVars, bitString, matVars >>

InverseReturn ==
  /\ pc = "inverse"
  /\ i > 7
  /\ result' = squareONB(beta)
  /\ pc' = "inverted"
  /\ UNCHANGED << mod_pow_2_cache, builds, a, b, mulVars, invVars, powVars, bitString, matVars >>

MultiplyByInverse ==
  /\ pc = "inverted"
  /\ b' = result
  /\ result' = Times(mod_pow_2_cache, a, result)
  /\ builds' = builds + 1
  /\ pc' = "checked"
  /\ UNCHANGED << mod_pow_2_cache, a, mulVars, invVars, powVars, bitString, matVars >>

NextInv == InverseBegin \/ InverseLoop \/ InverseReturn \/ MultiplyByInverse

SpecInv == InitInv /\ [][NextInv]_vars

----------------------------------------------------------------------------
\* a.power(e) beside the product of n copies of a, n the binary value of e

\* The exponent strings of length up to len
RECURSIVE BitStrings(_)
BitStrings(len) ==
  IF len = 0 THEN {""}
  ELSE BitStrings(len - 1) \cup
       {s \o c : s \in {t \in BitStrings(len - 1) : Len(t) = len - 1}, c \in {"0", "1"}}

\* The integer a string of '0'/'1' denotes, most-significant bit first
RECURSIVE BinaryValue(_)
BinaryValue(s) ==
  IF s = "" THEN 0
  ELSE 2 * BinaryValue(SubSeq(s, 1, Len(s) - 1))
       + (IF CharAt(s, Len(s) - 1) = "1" THEN 1 ELSE 0)

RECURSIVE TwoTo(_)
TwoTo(e) == IF e = 0 THEN 1 ELSE 2 * TwoTo(e - 1)

InitPow ==
  /\ pc = "ready"
  /\ a \in Samples
  /\ b = << >>
  /\ Fresh
  /\ prod = One

Power ==
  /\ pc = "ready"
  /\ \E e \in BitStrings(MaxExpLen) :
       /\ BinaryValue(e) = n
       /\ exponent' = e
       /\ result' = power(mod_pow_2_cache, a, e)
       /\ builds' = builds + PowerProducts(e)
       /\ mod_pow_2_cache' = IF PowerProducts(e) > 0 THEN Cached(mod_pow_2_cache, Idx)
                             ELSE mod_pow_2_cache
  /\ pc' = "powered"
  /\ UNCHANGED << a, b, mulVars, invVars, n, prod, bitString, matVars >>

OneMoreCopy ==
  /\ pc = "ready"
  /\ n + 1 < TwoTo(MaxExpLen)
  /\ n' = n + 1
  /\ IF n = 0
     THEN prod' = a /\ UNCHANGED << builds, mod_pow_2_cache >>
     ELSE /\ prod' = Times(mod_pow_2_cache, prod, a)
          /\ builds' = builds + 1
          /\ mod_pow_2_cache' = Cached(mod_pow_2_cache, Idx)
  /\ UNCHANGED << pc, a, b, result, mulVars, invVars, exponent, bitString, matVars >>

NextPow == Power \/ OneMoreCopy

SpecPow == InitPow /\ [][NextPow]_vars

----------------------------------------------------------------------------
\* GF2mElement(bitString) on short strings over '0', '1' and another
\* character, and on strings longer than m

RECURSIVE Strings(_)
Strings(len) ==
  IF len = 0 THEN {""}
  ELSE Strings(len - 1) \cup
       {s \o c : s \in {t \in Strings(len - 1) : Len(t) = len - 1}, c \in {"0", "1", "x"}}

LongStrings == {"1" \o MainA, MainB \o "0", "11" \o MainA, MainA}

InitCtor ==
  /\ pc = "ready"
  /\ a = << >> /\ b = << >>
  /\ prod = << >>
  /\ Fresh

Construct ==
  /\ pc = "ready"
  /\ \E s \in Strings(MaxStrLen) \cup LongStrings :
       /\ bitString' = s
       /\ result' = FromString(s)
  /\ pc' = "constructed"
  /\ UNCHANGED << mod_pow_2_cache, builds, a, b, mulVars, invVars, powVars, matVars >>

Output ==
  /\ pc = "constructed"
  /\ resultVector' = Serialize(result)
  /\ pc' = "printed"
  /\ UNCHANGED << mod_pow_2_cache, builds, a, b, result, rotated, invVars, powVars, bitString, matVars >>

NextCtor == Construct \/ Output

SpecCtor == InitCtor /\ [][NextCtor]_vars

----------------------------------------------------------------------------
\* Properties

IsElement(v) == DOMAIN v = Idx

\* A constructor argument the specification accepts: '0'/'1' only, at most m long
WellFormed(s) ==
  /\ Len(s) <= m
  /\ \A at \in 0..(Len(s) - 1) : CharAt(s, at) \in {"0", "1"}

\* C1: for every nonzero element a, a * a.inverse() is the element whose m
\* coefficients are all true.  At "checked", b is a.inverse() and result is a * b.
C1_InverseRoundTrip ==
  (pc = "checked" /\ a # Zero) => result = One

C1_Witness ==
  /\ pc = "checked"
  /\ a = FromString(MainA)
  /\ b \notin {Zero, One, a}
  /\ result = One

\* C2: over any sequence of multiplications, createMultiplicativeMatrix runs at
\* most once.
C2_MatrixBuiltAtMostOnce ==
  builds <= 1

\* C3: inverse() on the zero element ends in a domain error and never returns
\* a field element.
C3_ZeroInverseRaises ==
  (pc = "inverted" /\ a = Zero) => ~IsElement(result)

\* C4: constructing from a string with a character other than '0'/'1', or longer
\* than m, produces no element.
C4_MalformedStringRejected ==
  (pc = "constructed" /\ ~WellFormed(bitString)) => ~IsElement(result)

\* C5: for every element a, a * I = a, I the element whose coefficients are all true.
C5_MultiplyByIdentity ==
  (pc = "multiplied" /\ b = One) => result = a

C5_Witness ==
  /\ pc = "multiplied"
  /\ b = One
  /\ a = FromString(MainA)
  /\ builds = 1
  /\ result = a

\* C6: power(a, e) is the product of n copies of a under operator*, n the
\* integer value of e; it is the all-true element for n = 0 and a for e = "1".
C6_PowerIsRepeatedProduct ==
  pc = "powered" =>
    /\ BinaryValue(exponent) = n
    /\ result = prod
    /\ (n = 0 => result = One)
    /\ (exponent = "1" => result = a)

C6_Witness ==
  /\ pc = "powered"
  /\ exponent = "11"
  /\ a = FromString(MainA)
  /\ result = prod
  /\ result \notin {a, One, squareONB(a)}

\* C7 as stated: every row of the matrix has exactly two pairs, and exactly two
\* columns j with compute_matrix_element(i, j) = 1.
C7_TwoPairsInEveryRow ==
  pc = "matrix" =>
    \A r \in Idx :
      /\ Len(one_positions[r]) = 2
      /\ Cardinality({c \in Idx : compute_matrix_element(mod_pow_2_cache, r, c) = 1}) = 2

\* C7 amended: every row i in 1..m-1 has exactly two pairs and exactly two
\* matching columns; row 0 has the one pair (0, 1) and the one matching column 1.
C7_TwoPairsInEveryRowButTheFirst ==
  pc = "matrix" =>
    /\ \A r \in 1..(m - 1) :
         /\ Len(one_positions[r]) = 2
         /\ one_positions[r][1] < one_positions[r][2]
         /\ {c \in Idx : compute_matrix_element(mod_pow_2_cache, r, c) = 1}
              = {one_positions[r][1], one_positions[r][2]}
    /\ one_positions[0] = << 1 >>
    /\ {c \in Idx : compute_matrix_element(mod_pow_2_cache, 0, c) = 1} = {1}

C7_Witness ==
  /\ pc = "matrix"
  /\ builds = 1
  /\ Len(one_positions[0]) = 1
  /\ Len(one_positions[m - 1]) = 2

\* C10 as stated: each of the four combinations compute_matrix_element(i, j)
\* computes is a value in 0..p-1.
C10_CombinationsInRange ==
  pc = "element" => \A c \in 1..4 : results[c] \in 0..(p - 1)

\* C10 amended: the first three combinations are in 0..p-1; the fourth is
\* p - u - v, in -(p-2)..(p-2), negative exactly when u + v > p, never -(p-1).
C10_FourthCombinationSigned ==
  pc = "element" =>
    LET u == mod_pow_2(mod_pow_2_cache, row, p)
        v == mod_pow_2(mod_pow_2_cache, col, p)
    IN  /\ \A c \in 1..3 : results[c] \in 0..(p - 1)
        /\ results[4] = p - u - v
        /\ results[4] \in (2 - p)..(p - 2)
        /\ (results[4] < 0 <=> u + v > p)
        /\ results[4] # -466

C10_Witness ==
  /\ pc = "element"
  /\ row = 8 /\ col = 8
  /\ results[4] = -45

\* C8 as stated: the rotation each round applies to a and b is squareONB.
C8_RoundRotationIsSquareONB ==
  pc = "multiplied" => (rotated.a = squareONB(a) /\ rotated.b = squareONB(b))

\* C8 amended: the rotation moves every coefficient one index up, c[0] = x[m-1]
\* and c[i+1] = x[i] for i in 0..m-2; squareONB undoes it.
C8_RoundRotationUndoesSquareONB ==
  pc = "multiplied" =>
    /\ rotated.a[0] = a[m - 1] /\ \A x \in 0..(m - 2) : rotated.a[x + 1] = a[x]
    /\ rotated.b[0] = b[m - 1] /\ \A x \in 0..(m - 2) : rotated.b[x + 1] = b[x]
    /\ squareONB(rotated.a) = a
    /\ squareONB(rotated.b) = b

C8_Witness ==
  /\ pc = "multiplied"
  /\ a = Unit(0)
  /\ rotated.a = Unit(1)
  /\ squareONB(a) = Unit(m - 1)

\* C9 as stated: the first round's output is coefficient 0 of the product, the
\* last character of the serialized element.
C9_FirstRoundIsCoefficientZero ==
  pc = "multiplied" =>
    /\ result[0] = (CharAt(resultVector, 0) = "1")
    /\ CharAt(Serialize(result), m - 1) = CharAt(resultVector, 0)

\* C9 amended: the first round's output is coefficient m-1 of the product, the
\* first character of the serialized element; round s gives coefficient m-1-s,
\* and the last round coefficient 0.
C9_FirstRoundIsCoefficientTop ==
  pc = "multiplied" =>
    /\ result[m - 1] = (CharAt(resultVector, 0) = "1")
    /\ CharAt(Serialize(result), 0) = CharAt(resultVector, 0)
    /\ \A s \in Idx : result[m - 1 - s] = (CharAt(resultVector, s) = "1")
    /\ result[0] = (CharAt(resultVector, m - 1) = "1")

C9_Witness ==
  /\ pc = "multiplied"
  /\ CharAt(resultVector, 0) = "1"
  /\ CharAt(resultVector, m - 1) = "0"
  /\ result[m - 1] /\ ~result[0]

=============================================================================
